---- MODULE Spec2Model ----
(***************************************************************************)
(* Model of src/src/App.jsx: the CSS rule parser and optimizer             *)
(* (parseCSSRules, optimizeCSS), the class usage extractor                 *)
(* (extractClassNames) and the syntax validator (validateSyntax).          *)
(*                                                                         *)
(* A JavaScript string is a sequence of one-character strings.  Every      *)
(* regular expression of the source is an operator that computes the       *)
(* match the JavaScript engine finds (leftmost start, greedy and lazy      *)
(* quantifiers, backtracking, the /g scan from lastIndex).                 *)
(***************************************************************************)
EXTENDS Integers, Sequences, FiniteSets, TLC

VARIABLES
    pc,           \* which function has been applied to the inputs
    src,          \* the CSS input as written: a sequence of items
    cssText,      \* the CSS input text, Render(src)
    usedClasses,  \* <<>> when the argument is absent (null), <<S>> for a Set S
    output,       \* optimizeCSS(cssText, usedClasses)
    output2,      \* optimizeCSS(output, usedClasses)
    attrs,        \* the markup as written: a sequence of attribute pieces
    jsxCode,      \* the markup text handed to extractClassNames
    classes,      \* the result of extractClassNames: names in insertion order
    srcLines,     \* the source as written: a sequence of lines
    code,         \* the source text handed to validateSyntax
    fileType,     \* the dialect handed to validateSyntax
    validation,   \* the result of validateSyntax: [errors, warnings]; as the
                  \* state of the component, <<>> for null and <<r>> for r
    mode,         \* state of the component: "css-only" or "jsx-css"
    jsxInput,     \* state of the component: the text of the code editor
    cssInput,     \* state of the component: the text of the CSS editor
    stats         \* state of the component: <<>> for null, <<r>> for a record

vars == <<pc, src, cssText, usedClasses, output, output2, attrs, jsxCode,
          classes, srcLines, code, fileType, validation,
          mode, jsxInput, cssInput, stats>>

(***************************************************************************)
(* Strings                                                                 *)
(***************************************************************************)
Min(S) == CHOOSE m \in S : \A n \in S : m <= n

Max(S) == CHOOSE m \in S : \A n \in S : m >= n

\* \s of a JavaScript regular expression, and what String.prototype.trim removes
IsWs(c) == c \in {" ", "\n", "\t", "\r"}

\* whether pat occurs in t at index i
StartsAt(t, i, pat) ==
    /\ i >= 1
    /\ i + Len(pat) - 1 <= Len(t)
    /\ \A k \in 1..Len(pat) : t[i + k - 1] = pat[k]

\* String.prototype.startsWith
StartsWith(t, pat) == StartsAt(t, 1, pat)

\* String.prototype.includes
Includes(t, pat) == \E i \in 1..(Len(t) + 1) : StartsAt(t, i, pat)

\* index of the first c at or after i, 0 when there is none
IndexFrom(t, i, c) ==
    LET S == {j \in i..Len(t) : t[j] = c}
    IN  IF S = {} THEN 0 ELSE Min(S)

\* index of the first character at or after i that is not white space,
\* Len(t) + 1 when there is none: where a greedy \s* started at i ends
SkipWs(t, i) ==
    LET S == {j \in i..Len(t) : ~IsWs(t[j])}
    IN  IF S = {} THEN Len(t) + 1 ELSE Min(S)

\* String.prototype.trim
Trim(t) ==
    LET S == {j \in 1..Len(t) : ~IsWs(t[j])}
    IN  IF S = {} THEN <<>> ELSE SubSeq(t, Min(S), Max(S))

\* String.prototype.split(c) for a one-character separator c
RECURSIVE SplitFrom(_, _, _)
SplitFrom(t, i, c) ==
    LET j == IndexFrom(t, i, c)
    IN  IF j = 0 THEN <<SubSeq(t, i, Len(t))>>
        ELSE <<SubSeq(t, i, j - 1)>> \o SplitFrom(t, j + 1, c)

Split(t, c) == SplitFrom(t, 1, c)

\* concatenation of a sequence of strings
RECURSIVE Concat(_)
Concat(ss) == IF ss = <<>> THEN <<>> ELSE Head(ss) \o Concat(Tail(ss))

\* the strings of ss joined by sep (Array.prototype.join)
RECURSIVE Join(_, _)
Join(ss, sep) ==
    IF ss = <<>> THEN <<>>
    ELSE IF Len(ss) = 1 THEN ss[1]
    ELSE ss[1] \o sep \o Join(Tail(ss), sep)

\* the set of elements of a sequence
Range(s) == {s[i] : i \in 1..Len(s)}

(***************************************************************************)
(* parseCSSRules                                                           *)
(***************************************************************************)
CommentOpen == <<"/", "*">>

CommentClose == <<"*", "/">>

AtMedia == <<"@", "m", "e", "d", "i", "a">>

\* cssText.replace(/\/\*[\s\S]*?\*\//g, ''): each comment runs from its
\* opener to the first closer at least two characters later
RECURSIVE StripFrom(_, _)
StripFrom(t, i) ==
    IF i > Len(t) THEN <<>>
    ELSE LET C == {j \in (i + 2)..Len(t) : StartsAt(t, j, CommentClose)}
         IN  IF StartsAt(t, i, CommentOpen) /\ C # {}
             THEN StripFrom(t, Min(C) + 2)
             ELSE <<t[i]>> \o StripFrom(t, i + 1)

StripComments(t) == StripFrom(t, 1)

\* the lookahead (?=\s*(@media|$)) at index p
MediaLookahead(t, p) ==
    LET q == SkipWs(t, p)
    IN  q > Len(t) \/ StartsAt(t, q, AtMedia)

\* mediaRegex = /@media\s*([^{]+)\s*\{([\s\S]*?)\}(?=\s*(@media|$))/ tried
\* at index s.  [^{]+ runs to the first "{" and needs one character,
\* which the first \s* gives back when only white space precedes the "{";
\* the lazy content ends at the first "}" that the lookahead accepts.
MediaMatchAt(t, s) ==
    LET k == s + Len(AtMedia)
        j == IndexFrom(t, k, "{")
        w == SkipWs(t, k)
        E == IF j = 0 THEN {}
             ELSE {e \in (j + 1)..Len(t) : t[e] = "}" /\ MediaLookahead(t, e + 1)}
    IN  IF StartsAt(t, s, AtMedia) /\ j > k /\ E # {}
        THEN [ok |-> TRUE,
              start |-> s,
              end |-> Min(E),
              query |-> Trim(IF w < j THEN SubSeq(t, w, j - 1)
                                      ELSE SubSeq(t, j - 1, j - 1)),
              content |-> SubSeq(t, j + 1, Min(E) - 1)]
        ELSE [ok |-> FALSE, start |-> s, end |-> s, query |-> <<>>,
              content |-> <<>>]

\* the matches of the global mediaRegex from index pos on, in order
RECURSIVE MediaExec(_, _)
MediaExec(t, pos) ==
    LET S == {s \in pos..Len(t) : MediaMatchAt(t, s).ok}
    IN  IF S = {} THEN <<>>
        ELSE LET m == MediaMatchAt(t, Min(S))
             IN  <<m>> \o MediaExec(t, m.end + 1)

\* cssText.replace(mediaRegex, ''): the text outside the matches
RemoveMedia(t) ==
    LET ms == MediaExec(t, 1)
        Outside(i) == \A n \in 1..Len(ms) : i < ms[n].start \/ i > ms[n].end
        Keep == {i \in 1..Len(t) : Outside(i)}
        RECURSIVE Pick(_)
        Pick(i) == IF i > Len(t) THEN <<>>
                   ELSE (IF i \in Keep THEN <<t[i]>> ELSE <<>>) \o Pick(i + 1)
    IN  Pick(1)

\* ruleRegex = /([^{]+)\{([^}]+)\}/ tried at index s: the selector runs to
\* the first "{", the declarations to the first "}" after it, and both
\* need one character
RuleMatchAt(t, s) ==
    LET j == IndexFrom(t, s, "{")
        e == IF j = 0 THEN 0 ELSE IndexFrom(t, j + 1, "}")
    IN  IF s <= Len(t) /\ j > s /\ e > j + 1
        THEN [ok |-> TRUE, end |-> e,
              selector |-> Trim(SubSeq(t, s, j - 1)),
              declarations |-> Trim(SubSeq(t, j + 1, e - 1))]
        ELSE [ok |-> FALSE, end |-> s, selector |-> <<>>,
              declarations |-> <<>>]

\* the while loop over ruleRegex.exec: a match is pushed when its trimmed
\* selector and declarations are both non-empty
RECURSIVE RuleExec(_, _)
RuleExec(t, pos) ==
    LET S == {s \in pos..Len(t) : RuleMatchAt(t, s).ok}
    IN  IF S = {} THEN <<>>
        ELSE LET m == RuleMatchAt(t, Min(S))
             IN  (IF m.selector # <<>> /\ m.declarations # <<>>
                  THEN <<[selector |-> m.selector,
                          declarations |-> m.declarations]>>
                  ELSE <<>>) \o RuleExec(t, m.end + 1)

parseCSSRules(text) ==
    LET t == StripComments(text)
        ms == MediaExec(t, 1)
    IN  [rules |-> RuleExec(RemoveMedia(t), 1),
         mediaRules |-> [n \in 1..Len(ms) |->
                            [query |-> ms[n].query, content |-> ms[n].content]]]

(***************************************************************************)
(* optimizeCSS                                                             *)
(*                                                                         *)
(* A JavaScript object used as a map is the sequence of its entries in     *)
(* Object.keys order, which is insertion order for the keys the inputs     *)
(* produce (none is an array index or a name of Object.prototype).         *)
(***************************************************************************)
\* const [prop, val] = decl.split(':').map(s => s.trim()): the first two
\* pieces of the split; val is undefined when there is one piece only
DeclProp(decl) == Trim(Split(decl, ":")[1])

DeclHasVal(decl) == Len(Split(decl, ":")) >= 2

DeclVal(decl) == Trim(Split(decl, ":")[2])

\* if (prop && val)
DeclOk(decl) ==
    /\ DeclProp(decl) # <<>>
    /\ DeclHasVal(decl)
    /\ DeclVal(decl) # <<>>

\* obj[prop] = val: an existing key keeps its place, a new one goes last
SetProp(decls, prop, val) ==
    IF \E i \in 1..Len(decls) : decls[i].prop = prop
    THEN [i \in 1..Len(decls) |->
            IF decls[i].prop = prop THEN [prop |-> prop, val |-> val]
            ELSE decls[i]]
    ELSE Append(decls, [prop |-> prop, val |-> val])

\* declarations.split(';').forEach(decl => ...) on one selector's mapping
RECURSIVE AddDecls(_, _)
AddDecls(decls, ds) ==
    IF ds = <<>> THEN decls
    ELSE AddDecls(IF DeclOk(Head(ds))
                  THEN SetProp(decls, DeclProp(Head(ds)), DeclVal(Head(ds)))
                  ELSE decls,
                  Tail(ds))

\* the body of rules.forEach: create the selector's mapping when there is
\* none, then write the rule's declarations into it
AddRule(grouped, rule) ==
    LET g == IF \E i \in 1..Len(grouped) : grouped[i].selector = rule.selector
             THEN grouped
             ELSE Append(grouped, [selector |-> rule.selector, decls |-> <<>>])
    IN  [i \in 1..Len(g) |->
            IF g[i].selector = rule.selector
            THEN [selector |-> g[i].selector,
                  decls |-> AddDecls(g[i].decls, Split(rule.declarations, ";"))]
            ELSE g[i]]

RECURSIVE GroupRules(_, _)
GroupRules(grouped, rules) ==
    IF rules = <<>> THEN grouped
    ELSE GroupRules(AddRule(grouped, Head(rules)), Tail(rules))

\* [a-zA-Z0-9_-]
IsClassChar(c) ==
    c \in {"a", "b", "c", "d", "e", "f", "g", "h", "i", "j", "k", "l", "m",
           "n", "o", "p", "q", "r", "s", "t", "u", "v", "w", "x", "y", "z",
           "A", "B", "C", "D", "E", "F", "G", "H", "I", "J", "K", "L", "M",
           "N", "O", "P", "Q", "R", "S", "T", "U", "V", "W", "X", "Y", "Z",
           "0", "1", "2", "3", "4", "5", "6", "7", "8", "9", "_", "-"}

\* selector.match(/\.[a-zA-Z0-9_-]+/g) with cls.slice(1) applied: the names
\* after each "." that a class character follows, scanned left to right
RECURSIVE ClassMatches(_, _)
ClassMatches(sel, i) ==
    IF i >= Len(sel) THEN <<>>
    ELSE IF sel[i] = "." /\ IsClassChar(sel[i + 1])
    THEN LET S == {j \in (i + 1)..Len(sel) : ~IsClassChar(sel[j])}
             e == IF S = {} THEN Len(sel) ELSE Min(S) - 1
         IN  <<SubSeq(sel, i + 1, e)>> \o ClassMatches(sel, e + 1)
    ELSE ClassMatches(sel, i + 1)

\* the filter test with classes.every in place of classes.some: a selector
\* is deleted only when none of its classes is used
ShouldDeleteWhenAllUnused(selector, used) ==
    LET cls == ClassMatches(selector, 1)
    IN  /\ cls # <<>>
        /\ \A n \in 1..Len(cls) : cls[n] \notin used
        /\ ~Includes(selector, <<":">>)

\* the test of the filter loop: classes is not null, some class is not in
\* usedClasses, and the selector holds no ":"
ShouldDelete(selector, used) ==
    LET cls == ClassMatches(selector, 1)
    IN  /\ cls # <<>>
        /\ \E n \in 1..Len(cls) : cls[n] \notin used
        /\ ~Includes(selector, <<":">>)

\* if (usedClasses) { Object.keys(grouped).forEach(... delete ...) }: a Set
\* is truthy also when empty, null is not
FilterGroups(grouped, usedArg) ==
    IF usedArg = <<>> THEN grouped
    ELSE LET KeepGroup(g) == ~ShouldDelete(g.selector, usedArg[1])
         IN  SelectSeq(grouped, KeepGroup)

\* `${prop}:${val};` for each property
RECURSIVE SerializeDecls(_)
SerializeDecls(decls) ==
    IF decls = <<>> THEN <<>>
    ELSE Head(decls).prop \o <<":">> \o Head(decls).val \o <<";">>
         \o SerializeDecls(Tail(decls))

\* `${selector}{` ... '}' for each selector
RECURSIVE SerializeGroups(_)
SerializeGroups(grouped) ==
    IF grouped = <<>> THEN <<>>
    ELSE Head(grouped).selector \o <<"{">> \o SerializeDecls(Head(grouped).decls)
         \o <<"}">> \o SerializeGroups(Tail(grouped))

\* the body of mediaRules.forEach: the block's content is parsed, grouped
\* and filtered like the top level, and written when a selector is left
MediaOutput(media, usedArg) ==
    LET mediaGrouped ==
            FilterGroups(GroupRules(<<>>, parseCSSRules(media.content).rules),
                         usedArg)
    IN  IF Len(mediaGrouped) > 0
        THEN AtMedia \o <<" ">> \o media.query \o <<"{">>
             \o SerializeGroups(mediaGrouped) \o <<"}">>
        ELSE <<>>

RECURSIVE MediaOutputs(_, _)
MediaOutputs(mediaRules, usedArg) ==
    IF mediaRules = <<>> THEN <<>>
    ELSE MediaOutput(Head(mediaRules), usedArg)
         \o MediaOutputs(Tail(mediaRules), usedArg)

optimizeCSS(text, usedArg) ==
    LET parsed == parseCSSRules(text)
        grouped == FilterGroups(GroupRules(<<>>, parsed.rules), usedArg)
    IN  SerializeGroups(grouped) \o MediaOutputs(parsed.mediaRules, usedArg)

(***************************************************************************)
(* CSS inputs.  An input is written as a sequence of items: a flat rule,   *)
(* an @media block holding rules, or a comment.  A selector is written as  *)
(* a sequence of parts (class, element, pseudo-class) and a rule body as a *)
(* sequence of declarations, so what was written is known apart from the   *)
(* text that the parser reads.                                             *)
(***************************************************************************)
MaxItems == 3

ClassPart(n) == [t |-> "class", n |-> n]

ElemPart(n) == [t |-> "elem", n |-> n]

PseudoPart(n) == [t |-> "pseudo", n |-> n]

Decl(p, v) == [prop |-> p, val |-> v]

WrittenRule(sel, body) == [sel |-> sel, body |-> body]

SelA == <<ClassPart(<<"a">>)>>

SelB == <<ClassPart(<<"b">>)>>

SelP == <<ElemPart(<<"p">>)>>

SelBHover == <<ClassPart(<<"b">>), PseudoPart(<<"h">>)>>

SelAB == <<ClassPart(<<"a">>), ClassPart(<<"b">>)>>

X1 == Decl(<<"x">>, <<"1">>)

X2 == Decl(<<"x">>, <<"2">>)

Y1 == Decl(<<"y">>, <<"1">>)

\* a value that holds a ":" itself, as url(http://x) does
XUrl == Decl(<<"x">>, <<"u", ":", "v">>)

WrittenRules ==
    { WrittenRule(SelA, <<X1>>),
      WrittenRule(SelA, <<X2, Y1>>),
      WrittenRule(SelB, <<Y1>>),
      WrittenRule(SelBHover, <<X1>>),
      WrittenRule(SelAB, <<Y1>>),
      WrittenRule(SelP, <<X1>>),
      WrittenRule(SelP, <<XUrl>>),
      WrittenRule(SelP, <<>>) }

RuleItem(r) == [kind |-> "rule", rules |-> <<r>>]

MediaItem(rs) == [kind |-> "media", rules |-> rs]

Items ==
    {RuleItem(r) : r \in WrittenRules}
    \cup { MediaItem(<<WrittenRule(SelA, <<X1>>)>>),
           MediaItem(<<WrittenRule(SelP, <<>>)>>),
           [kind |-> "comment", rules |-> <<>>] }

Inputs == UNION {[1..n -> Items] : n \in 1..MaxItems}

\* null, an empty Set, a Set of one class name
UsedArgs == {<<>>, <<{}>>, <<{<<"a">>}>>}

PartText(part) ==
    CASE part.t = "class" -> <<".">> \o part.n
      [] part.t = "pseudo" -> <<":">> \o part.n
      [] OTHER -> part.n

RECURSIVE SelText(_)
SelText(sel) == IF sel = <<>> THEN <<>> ELSE PartText(Head(sel)) \o SelText(Tail(sel))

DeclText(d) == d.prop \o <<":">> \o d.val

\* a body without declarations is written as the empty declaration ";"
BodyText(body) ==
    IF body = <<>> THEN <<";">>
    ELSE Join([i \in 1..Len(body) |-> DeclText(body[i])], <<";">>)

RuleText(r) == SelText(r.sel) \o <<"{">> \o BodyText(r.body) \o <<"}">>

MediaQuery == <<"q">>

ItemText(item) ==
    CASE item.kind = "rule" -> RuleText(item.rules[1])
      [] item.kind = "media" ->
            AtMedia \o <<" ">> \o MediaQuery \o <<"{">>
            \o Concat([i \in 1..Len(item.rules) |-> RuleText(item.rules[i])])
            \o <<"}">>
      [] OTHER -> CommentOpen \o <<"c">> \o CommentClose

\* the items in order, one space between two items
Render(items) == Join([i \in 1..Len(items) |-> ItemText(items[i])], <<" ">>)

(***************************************************************************)
(* Specification of the optimizer: the inputs are drawn, optimizeCSS is    *)
(* applied to them, and then to its own output.                            *)
(***************************************************************************)
NoMarkup == <<>>

\* the functions are applied on their own: the component holds its first state
AppInitialState ==
    /\ mode = "css-only"
    /\ jsxInput = <<>>
    /\ cssInput = <<>>
    /\ stats = <<>>

NoValidation == [errors |-> <<>>, warnings |-> <<>>]

Init ==
    /\ pc = "input"
    /\ src \in Inputs
    /\ cssText = Render(src)
    /\ usedClasses \in UsedArgs
    /\ output = <<>>
    /\ output2 = <<>>
    /\ attrs = <<>>
    /\ jsxCode = NoMarkup
    /\ classes = <<>>
    /\ srcLines = <<>>
    /\ code = <<>>
    /\ fileType = "jsx"
    /\ validation = NoValidation
    /\ AppInitialState

Optimize ==
    /\ pc = "input"
    /\ output' = optimizeCSS(cssText, usedClasses)
    /\ pc' = "optimized"
    /\ UNCHANGED <<src, cssText, usedClasses, output2, attrs, jsxCode, classes,
                   srcLines, code, fileType, validation,
                   mode, jsxInput, cssInput, stats>>

Reoptimize ==
    /\ pc = "optimized"
    /\ output2' = optimizeCSS(output, usedClasses)
    /\ pc' = "reoptimized"
    /\ UNCHANGED <<src, cssText, usedClasses, output, attrs, jsxCode, classes,
                   srcLines, code, fileType, validation,
                   mode, jsxInput, cssInput, stats>>

Next == Optimize \/ Reoptimize

Spec == Init /\ [][Next]_vars

(***************************************************************************)
(* Reading the inputs as written and the output text                       *)
(***************************************************************************)
\* the class names written in a selector
SelClasses(sel) == {sel[i].n : i \in {k \in 1..Len(sel) : sel[k].t = "class"}}

SelHasPseudo(sel) == \E i \in 1..Len(sel) : sel[i].t = "pseudo"

\* the filter as the specification words it, on a selector as written
KeepWritten(sel, usedArg) ==
    \/ usedArg = <<>>
    \/ SelClasses(sel) = {}
    \/ SelClasses(sel) \subseteq usedArg[1]
    \/ SelHasPseudo(sel)

\* the class tokens of a selector text: after each "." that a class
\* character follows, the longest run of class characters
ClassTokens(s) ==
    LET RunEnd(i) == Max({e \in i..Len(s) : \A k \in i..e : IsClassChar(s[k])})
    IN  {SubSeq(s, i + 1, RunEnd(i + 1)) :
            i \in {k \in 1..(Len(s) - 1) : s[k] = "." /\ IsClassChar(s[k + 1])}}

\* the filter as the specification words it, on a selector text
KeepText(s, usedArg) ==
    \/ usedArg = <<>>
    \/ ClassTokens(s) = {}
    \/ ClassTokens(s) \subseteq usedArg[1]
    \/ ":" \in Range(s)

\* where a group of selector text s starts in text t: s and "{" at the
\* start of the text or after a brace or a space
GroupStarts(t, s) ==
    {i \in 1..Len(t) : /\ StartsAt(t, i, s \o <<"{">>)
                       /\ (i = 1 \/ t[i - 1] \in {"{", "}", " "})}

HasGroup(t, s) == GroupStarts(t, s) # {}

\* the declarations of the group that starts at i, as "prop:value" texts
GroupDecls(t, s, i) ==
    LET b == i + Len(s) + 1
        e == IndexFrom(t, b, "}")
    IN  IF e = 0 THEN {} ELSE Range(Split(SubSeq(t, b, e - 1), ";")) \ {<<>>}

\* some group of s in t holds the declaration d as written
Emits(t, s, d) == \E i \in GroupStarts(t, s) : DeclText(d) \in GroupDecls(t, s, i)

\* the output before its first media block
TopLevelPart(t) ==
    LET S == {i \in 1..Len(t) : StartsAt(t, i, AtMedia)}
    IN  IF S = {} THEN t ELSE SubSeq(t, 1, Min(S) - 1)

MediaBlockCount(t) == Cardinality({i \in 1..Len(t) : StartsAt(t, i, AtMedia)})

IsFlat(items) == \A i \in 1..Len(items) : items[i].kind = "rule"

RuleIdx(items) == {i \in 1..Len(items) : items[i].kind = "rule"}

MediaIdx(items) == {i \in 1..Len(items) : items[i].kind = "media"}

WrittenProps(r) == {r.body[k].prop : k \in 1..Len(r.body)}

WrittenDecls(r) == Range(r.body)

\* the selector texts of the groups that optimizeCSS forms at top level
\* and inside the media blocks, before the filter
FormedSelectors(text) ==
    LET parsed == parseCSSRules(text)
        Sels(rs) == {rs[i].selector : i \in 1..Len(rs)}
    IN  Sels(parsed.rules)
        \cup UNION {Sels(parseCSSRules(parsed.mediaRules[n].content).rules) :
                       n \in 1..Len(parsed.mediaRules)}

(***************************************************************************)
(* Claims about parseCSSRules and optimizeCSS, under Spec                  *)
(***************************************************************************)
\* the selector of the rule item i is written in exactly the two top-level
\* rules i and j, i before j, and both hold a declaration
TwoOccurrences(i, j) ==
    /\ i \in RuleIdx(src) /\ j \in RuleIdx(src) /\ i < j
    /\ src[i].rules[1].sel = src[j].rules[1].sel
    /\ src[i].rules[1].body # <<>> /\ src[j].rules[1].body # <<>>
    /\ \A k \in RuleIdx(src) :
          src[k].rules[1].sel = src[i].rules[1].sel => k \in {i, j}

\* C1: when the same selector is written in two top-level rules (and no
\* usedClasses is given, so that no filter applies), the top-level part of
\* the output holds exactly one group for the selector; the group holds
\* every declaration of the later rule with its value as written (so a
\* property of both rules has the later value) and every declaration of
\* the earlier rule whose property the later rule does not declare.
C1_DuplicateSelectorMerge ==
    (pc = "optimized" /\ usedClasses = <<>>) =>
        \A i, j \in 1..Len(src) :
            TwoOccurrences(i, j) =>
                LET early == src[i].rules[1]
                    late == src[j].rules[1]
                    s == SelText(late.sel)
                    top == TopLevelPart(output)
                IN  /\ Cardinality(GroupStarts(top, s)) = 1
                    /\ \A d \in WrittenDecls(late) : Emits(top, s, d)
                    /\ \A d \in WrittenDecls(early) :
                          d.prop \notin WrittenProps(late) => Emits(top, s, d)

\* C2: with usedClasses given (also the empty Set) a selector group is
\* absent from the output exactly when its selector has a class token, one
\* of its class tokens is not in usedClasses and it holds no ":"; with
\* usedClasses absent every group is in the output.  This is stated for
\* every group that optimizeCSS forms, and for every rule of an input of
\* flat rules, whatever their order.
C2_UnusedClassFilter ==
    pc = "optimized" =>
        /\ \A s \in FormedSelectors(cssText) :
              HasGroup(output, s) <=> KeepText(s, usedClasses)
        /\ IsFlat(src) =>
              \A i \in 1..Len(src) :
                  HasGroup(output, SelText(src[i].rules[1].sel))
                      <=> KeepWritten(src[i].rules[1].sel, usedClasses)

\* C2 witness: with usedClasses = {a}, ".b" written before ".a", ".a" is in
\* the output and ".b" is not; and ".b:h" is kept with usedClasses = {}
C2_Witness ==
    /\ pc = "optimized"
    /\ usedClasses = <<{<<"a">>}>>
    /\ IsFlat(src)
    /\ \E i, j \in 1..Len(src) :
          /\ i < j
          /\ src[i].rules[1].sel = SelB
          /\ src[j].rules[1].sel = SelA
    /\ HasGroup(output, SelText(SelA))
    /\ ~HasGroup(output, SelText(SelB))

\* the media items whose written inner rules keep a selector under the filter
SurvivingMedia(items, usedArg) ==
    {i \in MediaIdx(items) :
        \E k \in 1..Len(items[i].rules) : KeepWritten(items[i].rules[k].sel, usedArg)}

\* every rule written in the input holds a declaration
AllRulesDeclare(items) ==
    \A i \in 1..Len(items) :
        \A k \in 1..Len(items[i].rules) : items[i].rules[k].body # <<>>

\* C3: a media block is written to the output exactly when one of its
\* inner selector groups survives the filter, and is omitted otherwise: the
\* output holds one "@media" for each written block with a surviving inner
\* selector, and none for the others (stated for inputs whose rules all
\* hold a declaration).
C3_MediaBlockEmittedIffSurvivor ==
    (pc = "optimized" /\ AllRulesDeclare(src)) =>
        MediaBlockCount(output) = Cardinality(SurvivingMedia(src, usedClasses))

\* C4: optimizeCSS applied to its own output, with the same usedClasses,
\* returns that output.
C4_Idempotent == pc = "reoptimized" => output2 = output

\* C8: a declaration is split on its first ":" only, so each declaration of
\* a rule is emitted with its whole value, also a value that holds a ":".
\* Stated for inputs of flat rules without usedClasses, for each rule that
\* no later rule of the same selector follows.
C8_SplitOnFirstColon ==
    (pc = "optimized" /\ usedClasses = <<>> /\ IsFlat(src)) =>
        \A i \in 1..Len(src) :
            (\A k \in (i + 1)..Len(src) :
                 src[k].rules[1].sel # src[i].rules[1].sel)
            => \A d \in WrittenDecls(src[i].rules[1]) :
                   Emits(output, SelText(src[i].rules[1].sel), d)

\* C9: every rule written outside a media block (here: with a declaration,
\* and no usedClasses given) is a top-level rule of parseCSSRules and has
\* its group in the top-level part of the output, also when it follows a
\* media block; the parser returns one media block per written block, and
\* its content is the text written between the block's braces.
C9_TopLevelRulesSeparated ==
    (pc = "optimized" /\ usedClasses = <<>>) =>
        LET parsed == parseCSSRules(cssText)
            written == [n \in 1..Len(src) |->
                           Concat([k \in 1..Len(src[n].rules) |->
                                      RuleText(src[n].rules[k])])]
            blocks == SelectSeq([n \in 1..Len(src) |-> n],
                                LAMBDA n : src[n].kind = "media")
        IN  /\ \A i \in RuleIdx(src) :
                  src[i].rules[1].body # <<>> =>
                      /\ \E n \in 1..Len(parsed.rules) :
                            parsed.rules[n].selector = SelText(src[i].rules[1].sel)
                      /\ HasGroup(TopLevelPart(output), SelText(src[i].rules[1].sel))
            /\ Len(parsed.mediaRules) = Len(blocks)
            /\ \A n \in 1..Len(parsed.mediaRules) :
                  n <= Len(blocks) =>
                      parsed.mediaRules[n].content = written[blocks[n]]

\* C10: no selector group of the output is empty: the output holds no
\* "{}", at top level or inside a media block.
C10_NoEmptyGroup == pc = "optimized" => ~Includes(output, <<"{", "}">>)

(***************************************************************************)
(* extractClassNames                                                       *)
(***************************************************************************)
ClassNameEq == <<"c", "l", "a", "s", "s", "N", "a", "m", "e", "=">>

IsQuote(c) == c \in {"\"", "'"}

\* index of the first quote at or after i, 0 when there is none
QuoteFrom(t, i) ==
    LET S == {j \in i..Len(t) : IsQuote(t[j])}
    IN  IF S = {} THEN 0 ELSE Min(S)

NoMatch == [ok |-> FALSE, end |-> 0, group |-> <<>>]

\* stringRegex = /className=["']([^"']+)["']/ tried at index s
StringMatchAt(t, s) ==
    LET p == s + Len(ClassNameEq)
        q == QuoteFrom(t, p + 1)
    IN  IF StartsAt(t, s, ClassNameEq) /\ p <= Len(t) /\ IsQuote(t[p]) /\ q > p + 1
        THEN [ok |-> TRUE, end |-> q, group |-> SubSeq(t, p + 1, q - 1)]
        ELSE NoMatch

\* templateRegex = /className=\{['"]([^'"]+)['"]\}/ tried at index s
TemplateMatchAt(t, s) ==
    LET p == s + Len(ClassNameEq) + 1
        q == QuoteFrom(t, p + 1)
    IN  IF /\ StartsAt(t, s, ClassNameEq \o <<"{">>)
           /\ p <= Len(t) /\ IsQuote(t[p]) /\ q > p + 1
           /\ q + 1 <= Len(t) /\ t[q + 1] = "}"
        THEN [ok |-> TRUE, end |-> q + 1, group |-> SubSeq(t, p + 1, q - 1)]
        ELSE NoMatch

\* conditionalRegex = /className=\{[^}]*['"]([^'"]+)['"]/ tried at index s:
\* the greedy [^}]* runs to the first "}" and backs off to the last quote
\* before it that is followed by one character or more and a further quote
\* ([^'"]+ may run over the "}")
ConditionalMatchAt(t, s) ==
    LET b == s + Len(ClassNameEq) + 1
        r == IF IndexFrom(t, b, "}") = 0 THEN Len(t) + 1 ELSE IndexFrom(t, b, "}")
        P == {p \in b..(r - 1) : IsQuote(t[p]) /\ QuoteFrom(t, p + 1) > p + 1}
    IN  IF StartsAt(t, s, ClassNameEq \o <<"{">>) /\ P # {}
        THEN [ok |-> TRUE, end |-> QuoteFrom(t, Max(P) + 1),
              group |-> SubSeq(t, Max(P) + 1, QuoteFrom(t, Max(P) + 1) - 1)]
        ELSE NoMatch

\* the regular expression named by regex, tried at index s
ClassRegexMatchAt(regex, t, s) ==
    CASE regex = "stringRegex" -> StringMatchAt(t, s)
      [] regex = "templateRegex" -> TemplateMatchAt(t, s)
      [] OTHER -> ConditionalMatchAt(t, s)

\* the groups that the while loop over regex.exec finds from index pos on
RECURSIVE ExecGroups(_, _, _)
ExecGroups(regex, t, pos) ==
    LET S == {s \in pos..Len(t) : ClassRegexMatchAt(regex, t, s).ok}
    IN  IF S = {} THEN <<>>
        ELSE LET m == ClassRegexMatchAt(regex, t, Min(S))
             IN  <<m.group>> \o ExecGroups(regex, t, m.end + 1)

\* match[1].split(/\s+/) without its empty pieces: the runs of characters
\* that are not white space
RECURSIVE Tokens(_, _)
Tokens(g, i) ==
    LET b == SkipWs(g, i)
        S == {j \in b..Len(g) : IsWs(g[j])}
        e == IF S = {} THEN Len(g) ELSE Min(S) - 1
    IN  IF b > Len(g) THEN <<>> ELSE <<SubSeq(g, b, e)>> \o Tokens(g, e + 1)

\* classes.add(cls) for each cls of a sequence: a Set keeps insertion order
RECURSIVE AddAll(_, _)
AddAll(set, names) ==
    IF names = <<>> THEN set
    ELSE AddAll(IF Head(names) \in Range(set) THEN set ELSE Append(set, Head(names)),
                Tail(names))

RECURSIVE AddGroups(_, _)
AddGroups(set, groups) ==
    IF groups = <<>> THEN set
    ELSE AddGroups(AddAll(set, Tokens(Head(groups), 1)), Tail(groups))

extractClassNames(t) ==
    AddGroups(AddGroups(AddGroups(<<>>, ExecGroups("stringRegex", t, 1)),
                        ExecGroups("templateRegex", t, 1)),
              ExecGroups("conditionalRegex", t, 1))

(***************************************************************************)
(* Markup inputs: elements that each carry one attribute, written as the   *)
(* attribute's text and the class names its quoted literals hold.          *)
(***************************************************************************)
MaxAttrs == 3

\* className="a b"
AttrString ==
    [text |-> ClassNameEq \o <<"\"", "a", " ", "b", "\"">>,
     names |-> {<<"a">>, <<"b">>}]

\* className={x ? 'c' : 'd'}
AttrConditional ==
    [text |-> ClassNameEq \o <<"{", "x", " ", "?", " ", "'", "c", "'", " ", ":", " ", "'", "d", "'", "}">>,
     names |-> {<<"c">>, <<"d">>}]

\* className={'e'}
AttrTemplate ==
    [text |-> ClassNameEq \o <<"{", "'", "e", "'", "}">>,
     names |-> {<<"e">>}]

\* id="f": no class attribute
AttrId ==
    [text |-> <<"i", "d", "=", "\"", "f", "\"">>,
     names |-> {}]

Attrs == {AttrString, AttrConditional, AttrTemplate, AttrId}

Markups == UNION {[1..n -> Attrs] : n \in 1..MaxAttrs}

\* <p attribute> for each attribute
RenderMarkup(as) ==
    Concat([i \in 1..Len(as) |-> <<"<", "p", " ">> \o as[i].text \o <<">">>])

\* the class names written in the class attributes of a markup
WrittenNames(as) == UNION {as[i].names : i \in 1..Len(as)}

InitExtract ==
    /\ pc = "input"
    /\ attrs \in Markups
    /\ jsxCode = RenderMarkup(attrs)
    /\ classes = <<>>
    /\ src = <<>>
    /\ cssText = <<>>
    /\ usedClasses = <<>>
    /\ output = <<>>
    /\ output2 = <<>>
    /\ srcLines = <<>>
    /\ code = <<>>
    /\ fileType = "jsx"
    /\ validation = NoValidation
    /\ AppInitialState

Extract ==
    /\ pc = "input"
    /\ classes' = extractClassNames(jsxCode)
    /\ pc' = "extracted"
    /\ UNCHANGED <<src, cssText, usedClasses, output, output2, attrs, jsxCode,
                   srcLines, code, fileType, validation,
                   mode, jsxInput, cssInput, stats>>

NextExtract == Extract

SpecExtract == InitExtract /\ [][NextExtract]_vars

\* C7: the result of extractClassNames is exactly the set of the class
\* names written in the quoted literals of the class attributes: for
\* className="a b" and className={x ? 'c' : 'd'} it is {a, b, c, d}.
C7_ExtractsEveryLiteral ==
    pc = "extracted" => Range(classes) = WrittenNames(attrs)

(***************************************************************************)
(* validateSyntax                                                          *)
(*                                                                         *)
(* A diagnostic is [line, type, message, args, suggestion]: message names  *)
(* the template of the source's message text, args are the texts the       *)
(* template interpolates, suggestion is <<>> when the source sets none     *)
(* and <<text>> otherwise.                                                 *)
(***************************************************************************)
FileTypes == {"jsx", "tsx", "js", "ts", "php", "html", "vue"}

\* FILE_TYPES[fileType].name
ConfigName(ft) ==
    CASE ft = "jsx" -> <<"J", "S", "X">>
      [] ft = "tsx" -> <<"T", "S", "X">>
      [] ft = "js" -> <<"J", "a", "v", "a", "S", "c", "r", "i", "p", "t">>
      [] ft = "ts" -> <<"T", "y", "p", "e", "S", "c", "r", "i", "p", "t">>
      [] ft = "php" -> <<"P", "H", "P">>
      [] ft = "html" -> <<"H", "T", "M", "L">>
      [] OTHER -> <<"V", "u", "e">>

UpperLetters ==
    <<"A", "B", "C", "D", "E", "F", "G", "H", "I", "J", "K", "L", "M">>
    \o <<"N", "O", "P", "Q", "R", "S", "T", "U", "V", "W", "X", "Y", "Z">>

LowerLetters ==
    <<"a", "b", "c", "d", "e", "f", "g", "h", "i", "j", "k", "l", "m">>
    \o <<"n", "o", "p", "q", "r", "s", "t", "u", "v", "w", "x", "y", "z">>

\* [a-zA-Z]
IsLetter(c) == c \in Range(UpperLetters) \cup Range(LowerLetters)

\* String.prototype.toLowerCase, toUpperCase
ToLower(t) ==
    [i \in 1..Len(t) |->
        IF t[i] \in Range(UpperLetters)
        THEN LowerLetters[CHOOSE k \in 1..26 : UpperLetters[k] = t[i]]
        ELSE t[i]]

ToUpper(t) ==
    [i \in 1..Len(t) |->
        IF t[i] \in Range(LowerLetters)
        THEN UpperLetters[CHOOSE k \in 1..26 : LowerLetters[k] = t[i]]
        ELSE t[i]]

Diag(line, type, message, args, suggestion) ==
    [line |-> line, type |-> type, message |-> message, args |-> args,
     suggestion |-> suggestion]

HtmlCommentOpen == <<"<", "!", "-", "-">>

ClassEq == <<"c", "l", "a", "s", "s", "=">>

\* line.match(/class=["'][^"']*["']/): the leftmost "class=", quote, run
\* without quotes, quote; <<>> when there is no match, <<match[0]>> otherwise
ClassAttrMatch(line) ==
    LET Ok(s) == /\ StartsAt(line, s, ClassEq)
                 /\ s + Len(ClassEq) <= Len(line)
                 /\ IsQuote(line[s + Len(ClassEq)])
                 /\ QuoteFrom(line, s + Len(ClassEq) + 1) # 0
        S == {s \in 1..Len(line) : Ok(s)}
    IN  IF S = {} THEN <<>>
        ELSE <<SubSeq(line, Min(S), QuoteFrom(line, Min(S) + Len(ClassEq) + 1))>>

\* match[0].replace('class=', 'className='): the first "class=" of the
\* match, which starts it
ClassSuggestion(m) == ClassNameEq \o SubSeq(m, Len(ClassEq) + 1, Len(m))

\* /<[a-zA-Z][^>]*[^\/]>/ tried at s: the index of the match's last
\* character, 0 when it fails.  g is the first ">" after the tag's letter;
\* the greedy [^>]* first leaves [^\/] on that ">" itself and needs a second
\* ">" after it, then backs off one character.
OpenTagEnd(t, s) ==
    LET g == IndexFrom(t, s + 2, ">")
    IN  IF ~(s + 1 <= Len(t) /\ t[s] = "<" /\ IsLetter(t[s + 1])) \/ g = 0 THEN 0
        ELSE IF g + 1 <= Len(t) /\ t[g + 1] = ">" THEN g + 1
        ELSE IF g - 1 >= s + 2 /\ t[g - 1] # "/" THEN g
        ELSE 0

\* /<\/[a-zA-Z][^>]*>/ tried at s
CloseTagEnd(t, s) ==
    IF s + 2 <= Len(t) /\ t[s] = "<" /\ t[s + 1] = "/" /\ IsLetter(t[s + 2])
    THEN IndexFrom(t, s + 3, ">")
    ELSE 0

\* /<[a-zA-Z][^>]*\/>/ tried at s
SelfClosingEnd(t, s) ==
    LET g == IndexFrom(t, s + 2, ">")
    IN  IF /\ s + 1 <= Len(t) /\ t[s] = "<" /\ IsLetter(t[s + 1])
           /\ g - 1 >= s + 2 /\ t[g - 1] = "/"
        THEN g ELSE 0

\* the tag regular expression named by regex, tried at index s
TagEnd(regex, t, s) ==
    CASE regex = "openTags" -> OpenTagEnd(t, s)
      [] regex = "closeTags" -> CloseTagEnd(t, s)
      [] OTHER -> SelfClosingEnd(t, s)

\* (line.match(regex with /g) || []).length
RECURSIVE CountMatches(_, _, _)
CountMatches(regex, t, pos) ==
    LET S == {s \in pos..Len(t) : TagEnd(regex, t, s) # 0}
    IN  IF S = {} THEN 0
        ELSE 1 + CountMatches(regex, t, TagEnd(regex, t, Min(S)) + 1)

WrongEvents == << <<"o", "n", "c", "l", "i", "c", "k", "=">>,
                 <<"o", "n", "c", "h", "a", "n", "g", "e", "=">>,
                 <<"o", "n", "s", "u", "b", "m", "i", "t", "=">> >>

\* event.charAt(2).toUpperCase() + event.slice(3)
CorrectEvent(event) == ToUpper(SubSeq(event, 3, 3)) \o SubSeq(event, 4, Len(event))

StatementKeywords ==
    { <<"c", "o", "n", "s", "t">>, <<"l", "e", "t">>,
      <<"v", "a", "r">>,
      <<"r", "e", "t", "u", "r", "n">>,
      <<"i", "m", "p", "o", "r", "t">>,
      <<"e", "x", "p", "o", "r", "t">>,
      <<"t", "h", "r", "o", "w">> }

\* trimmed.match(/^(const|let|var|return|import|export|throw)\s+.+[^;{}\[\]]$/):
\* a keyword, white space, one character or more that is no line
\* terminator, and a last character that is none of ; { } [ ]
MissingSemicolonMatch(tr) ==
    \E kw \in StatementKeywords :
        /\ StartsWith(tr, kw)
        /\ tr[Len(tr)] \notin {";", "{", "}", "[", "]"}
        /\ \E n \in 1..(Len(tr) - Len(kw) - 2) :
              /\ \A k \in 1..n : IsWs(tr[Len(kw) + k])
              /\ \A k \in (Len(kw) + n + 1)..(Len(tr) - 1) : tr[k] \notin {"\n", "\r"}

\* the errors that the forEach body pushes for one line, in order
LineErrors(text, ft, line, lineNum) ==
    LET trimmed == Trim(line)
        jsx == ft \in {"jsx", "tsx"}
        script == ft \in {"jsx", "tsx", "js", "ts"}
        m == ClassAttrMatch(line)
        EventError(n) ==
            IF jsx /\ Includes(ToLower(line), WrongEvents[n])
            THEN <<Diag(lineNum, "attribute", "camelCase",
                        <<CorrectEvent(WrongEvents[n]), WrongEvents[n]>>, <<>>)>>
            ELSE <<>>
    IN  (IF script /\ StartsWith(trimmed, <<"#">>)
            /\ ~StartsWith(trimmed, <<"#", "!", "/">>)
         THEN <<Diag(lineNum, "comment", "wrongComment", <<>>, <<>>)>> ELSE <<>>)
        \o (IF script /\ Includes(trimmed, HtmlCommentOpen)
            THEN <<Diag(lineNum, "comment", "htmlComment", <<ConfigName(ft)>>, <<>>)>>
            ELSE <<>>)
        \o (IF ft = "html"
               /\ (\/ StartsWith(trimmed, <<"/", "/">>)
                   \/ (/\ StartsWith(trimmed, CommentOpen)
                       /\ ~Includes(trimmed, <<"<", "s", "c", "r", "i", "p", "t">>)))
            THEN <<Diag(lineNum, "comment", "jsComment", <<>>, <<>>)>> ELSE <<>>)
        \o (IF jsx /\ Includes(line, ClassEq) /\ ~Includes(line, ClassNameEq)
               /\ m # <<>>
            THEN <<Diag(lineNum, "attribute", "useClassName", <<ConfigName(ft)>>,
                        <<ClassSuggestion(m[1])>>)>>
            ELSE <<>>)
        \o (IF jsx /\ Includes(line, <<"f", "o", "r", "=">>)
            THEN <<Diag(lineNum, "attribute", "useHtmlFor", <<ConfigName(ft)>>, <<>>)>>
            ELSE <<>>)
        \o (IF ft \in {"html", "php"} /\ Includes(line, ClassNameEq)
            THEN <<Diag(lineNum, "attribute", "useClass", <<ConfigName(ft)>>, <<>>)>>
            ELSE <<>>)
        \o (IF jsx /\ Includes(line, <<"s", "t", "y", "l", "e", "=", "\"">>)
            THEN <<Diag(lineNum, "attribute", "styleObject", <<>>, <<>>)>> ELSE <<>>)
        \o EventError(1) \o EventError(2) \o EventError(3)

\* the warnings that the forEach body pushes for one line, in order
LineWarnings(text, ft, line, lineNum) ==
    LET trimmed == Trim(line)
        openTags == CountMatches("openTags", line, 1)
        closeTags == CountMatches("closeTags", line, 1)
        selfClosing == CountMatches("selfClosing", line, 1)
    IN  (IF ft = "php" /\ Includes(trimmed, HtmlCommentOpen)
            /\ ~Includes(trimmed, <<"?", ">">>)
         THEN <<Diag(lineNum, "comment", "htmlCommentInPhp", <<>>, <<>>)>> ELSE <<>>)
        \o (IF ft \in {"jsx", "tsx", "html", "vue"}
               /\ openTags > closeTags + selfClosing
               /\ ~Includes(line, <<">">>) /\ Includes(line, <<"<">>)
            THEN <<Diag(lineNum, "structure", "unclosedTag", <<>>, <<>>)>> ELSE <<>>)
        \o (IF ft \in {"js", "ts", "jsx", "tsx"} /\ trimmed # <<>>
               /\ ~StartsWith(trimmed, <<"/", "/">>)
               /\ ~StartsWith(trimmed, CommentOpen)
               /\ MissingSemicolonMatch(trimmed)
               /\ ~Includes(trimmed, <<"=", ">">>)
            THEN <<Diag(lineNum, "style", "semicolon", <<>>, <<>>)>> ELSE <<>>)
        \o (IF ft = "php" /\ ~Includes(text, <<"<", "?", "p", "h", "p">>)
               /\ Len(Trim(text)) > 0
            THEN <<Diag(1, "structure", "phpTag", <<>>, <<>>)>> ELSE <<>>)

validateSyntax(text, ft) ==
    LET lines == Split(text, "\n")
    IN  [errors |-> Concat([i \in 1..Len(lines) |-> LineErrors(text, ft, lines[i], i)]),
         warnings |-> Concat([i \in 1..Len(lines) |->
                                 LineWarnings(text, ft, lines[i], i)])]

(***************************************************************************)
(* Source inputs: a sequence of lines                                      *)
(***************************************************************************)
MaxLines == 2

LineCamelClick == <<"<", "b", "u", "t", "t", "o", "n", " ", "o", "n", "C", "l", "i", "c", "k", "=", "\"", "x", "\"", ">">>

LineLowerClick == <<"<", "b", "u", "t", "t", "o", "n", " ", "o", "n", "c", "l", "i", "c", "k", "=", "\"", "x", "\"", ">">>

LineLowerChange == <<"<", "i", "n", "p", "u", "t", " ", "o", "n", "c", "h", "a", "n", "g", "e", "=", "\"", "x", "\"", ">">>

LineLowerSubmit == <<"<", "f", "o", "r", "m", " ", "o", "n", "s", "u", "b", "m", "i", "t", "=", "\"", "x", "\"", ">">>

LinePhpOpen == <<"<", "?", "p", "h", "p">>

LineEcho == <<"e", "c", "h", "o", " ", "1", ";">>

LineBlank == <<>>

LineDivClass == <<"<", "d", "i", "v", " ", "c", "l", "a", "s", "s", "=", "\"", "f", "o", "o", "\"", ">">>

LineConst == <<"c", "o", "n", "s", "t", " ", "a", " ", "=", " ", "1">>

LineHash == <<"#", "c">>

Lines == {LineCamelClick, LineLowerClick, LineLowerChange, LineLowerSubmit,
          LinePhpOpen, LineEcho, LineBlank, LineDivClass, LineConst, LineHash}

Sources == UNION {[1..n -> Lines] : n \in 1..MaxLines}

InitValidate ==
    /\ pc = "input"
    /\ srcLines \in Sources
    /\ code = Join(srcLines, <<"\n">>)
    /\ fileType \in FileTypes
    /\ validation = NoValidation
    /\ src = <<>>
    /\ cssText = <<>>
    /\ usedClasses = <<>>
    /\ output = <<>>
    /\ output2 = <<>>
    /\ attrs = <<>>
    /\ jsxCode = NoMarkup
    /\ classes = <<>>
    /\ AppInitialState

Validate ==
    /\ pc = "input"
    /\ validation' = validateSyntax(code, fileType)
    /\ pc' = "validated"
    /\ UNCHANGED <<src, cssText, usedClasses, output, output2, attrs, jsxCode,
                   classes, srcLines, code, fileType,
                   mode, jsxInput, cssInput, stats>>

NextValidate == Validate

SpecValidate == InitValidate /\ [][NextValidate]_vars

\* the errors reported for line i
ErrorsAt(i) == SelectSeq(validation.errors, LAMBDA d : d.line = i)

\* the warnings about the missing PHP tag
PhpTagWarnings == SelectSeq(validation.warnings, LAMBDA d : d.message = "phpTag")

\* the camelCase name of a lower-case handler line
CamelNameOf(line) ==
    CASE line = LineLowerClick -> <<"o", "n", "C", "l", "i", "c", "k", "=">>
      [] line = LineLowerChange -> <<"o", "n", "C", "h", "a", "n", "g", "e", "=">>
      [] OTHER -> <<"o", "n", "S", "u", "b", "m", "i", "t", "=">>

\* C5: in the jsx and tsx dialects a line whose handler attribute is
\* camelCase (onClick=) produces no error, and a line with the lower-case
\* form (onclick=, onchange=, onsubmit=) produces exactly one error, which
\* names the camelCase form (onClick=, onChange=, onSubmit=).
C5_EventHandlerCheck ==
    (pc = "validated" /\ fileType \in {"jsx", "tsx"}) =>
        \A i \in 1..Len(srcLines) :
            /\ srcLines[i] = LineCamelClick => ErrorsAt(i) = <<>>
            /\ srcLines[i] \in {LineLowerClick, LineLowerChange, LineLowerSubmit} =>
                  /\ Len(ErrorsAt(i)) = 1
                  /\ ErrorsAt(i)[1].args[1] = CamelNameOf(srcLines[i])

\* C6: in the php dialect a source that is not blank and holds no "<?php"
\* gets exactly one warning about the missing tag, at line 1, however many
\* lines it has; a source that holds "<?php" or is blank gets none.
C6_MissingPhpTagWarnedOnce ==
    (pc = "validated" /\ fileType = "php") =>
        IF (\A i \in 1..Len(srcLines) : srcLines[i] # LinePhpOpen)
           /\ (\E i \in 1..Len(srcLines) : srcLines[i] # LineBlank)
        THEN Len(PhpTagWarnings) = 1 /\ PhpTagWarnings[1].line = 1
        ELSE PhpTagWarnings = <<>>

(***************************************************************************)
(* The App component: its state (mode, fileType, jsxInput, cssInput,       *)
(* output, stats, validation) and one action for each event handler that   *)
(* writes it.  A control that is not rendered, or is disabled, cannot      *)
(* fire; an onChange fires when the value of its control changes.          *)
(* handleCopy and handleDownload write none of these fields.               *)
(***************************************************************************)
Modes == {"css-only", "jsx-css"}

\* what the user types in the code editor: nothing, a blank, one line of
\* source, an element with a class attribute
CodeTexts == {<<>>, <<" ">>} \cup Lines \cup {RenderMarkup(<<AttrString>>)}

\* what the user types in the CSS editor: nothing, or two rules
CssTexts ==
    {<<>>, Render(<<RuleItem(WrittenRule(SelA, <<X1>>)),
                    RuleItem(WrittenRule(SelB, <<Y1>>))>>)}

InitApp ==
    /\ pc = "app"
    /\ mode = "css-only"
    /\ fileType = "jsx"
    /\ jsxInput = <<>>
    /\ cssInput = <<>>
    /\ output = <<>>
    /\ stats = <<>>
    /\ validation = <<>>
    /\ src = <<>>
    /\ cssText = <<>>
    /\ usedClasses = <<>>
    /\ output2 = <<>>
    /\ attrs = <<>>
    /\ jsxCode = NoMarkup
    /\ classes = <<>>
    /\ srcLines = <<>>
    /\ code = <<>>

\* the two mode buttons
SetMode ==
    \E m \in Modes :
        /\ mode' = m
        /\ UNCHANGED <<pc, src, cssText, usedClasses, output, output2, attrs,
                       jsxCode, classes, srcLines, code, fileType, validation,
                       jsxInput, cssInput, stats>>

\* the file type select
SetFileType ==
    \E ft \in FileTypes :
        /\ mode = "jsx-css"
        /\ ft # fileType
        /\ fileType' = ft
        /\ UNCHANGED <<pc, src, cssText, usedClasses, output, output2, attrs,
                       jsxCode, classes, srcLines, code, validation,
                       mode, jsxInput, cssInput, stats>>

\* the code editor
EditCode ==
    \E t \in CodeTexts :
        /\ mode = "jsx-css"
        /\ t # jsxInput
        /\ jsxInput' = t
        /\ validation' = <<>>
        /\ UNCHANGED <<pc, src, cssText, usedClasses, output, output2, attrs,
                       jsxCode, classes, srcLines, code, fileType,
                       mode, cssInput, stats>>

\* the CSS editor
EditCss ==
    \E t \in CssTexts :
        /\ t # cssInput
        /\ cssInput' = t
        /\ UNCHANGED <<pc, src, cssText, usedClasses, output, output2, attrs,
                       jsxCode, classes, srcLines, code, fileType, validation,
                       mode, jsxInput, stats>>

handleValidate ==
    /\ mode = "jsx-css"
    /\ Trim(jsxInput) # <<>>
    /\ validation' = <<validateSyntax(jsxInput, fileType)>>
    /\ UNCHANGED <<pc, src, cssText, usedClasses, output, output2, attrs,
                   jsxCode, classes, srcLines, code, fileType,
                   mode, jsxInput, cssInput, stats>>

\* the sizes are those of texts of one-byte characters; stats.reduction is
\* a function of the two sizes and is kept as the pair
handleOptimize ==
    /\ Trim(cssInput) # <<>>
    /\ \E used \in {IF mode = "jsx-css" /\ Trim(jsxInput) # <<>>
                    THEN <<Range(extractClassNames(jsxInput))>>
                    ELSE <<>>} :
          \E result \in {optimizeCSS(cssInput, used)} :
              /\ output' = result
              /\ stats' = << [original |-> Len(cssInput),
                              optimized |-> Len(result),
                              usedClasses |-> IF used = <<>> THEN <<>>
                                              ELSE <<Cardinality(used[1])>>] >>
    /\ UNCHANGED <<pc, src, cssText, usedClasses, output2, attrs, jsxCode,
                   classes, srcLines, code, fileType, validation,
                   mode, jsxInput, cssInput>>

handleClear ==
    /\ jsxInput' = <<>>
    /\ cssInput' = <<>>
    /\ output' = <<>>
    /\ stats' = <<>>
    /\ validation' = <<>>
    /\ UNCHANGED <<pc, src, cssText, usedClasses, output2, attrs, jsxCode,
                   classes, srcLines, code, fileType, mode>>

NextApp ==
    \/ SetMode
    \/ SetFileType
    \/ EditCode
    \/ EditCss
    \/ handleValidate
    \/ handleOptimize
    \/ handleClear

SpecApp == InitApp /\ [][NextApp]_vars

\* the displayed result is the result for the current text and file type
ValidationCurrent ==
    validation # <<>> => validation[1] = validateSyntax(jsxInput, fileType)

\* a step that changes the text or the file type leaves no result displayed
InputChangeResets ==
    (jsxInput' # jsxInput \/ fileType' # fileType) => validation' = <<>>

\* C11: the displayed validation is never stale: in every state of the
\* component a validation that is not null equals
\* validateSyntax(jsxInput, fileType), and every step that changes the
\* source text or the file type sets the validation to null.
C11_ValidationNeverStale ==
    [](pc = "app" => ValidationCurrent) /\ [][InputChangeResets]_vars

====
